---- MODULE Spec2Model ----
(***************************************************************************)
(* Model of src/analytics_util.py: the analytics helpers remove_similar,   *)
(* form_ngrams, eval_article and generate_trend_wordcloud.                 *)
(*                                                                         *)
(* Each function is a sequential procedure; it is modelled as a small      *)
(* state machine whose actions are the iterations of its loops and its     *)
(* straight-line stages.  The language model (spaCy), the phrase model     *)
(* (gensim) and the clustering (KMeans) are opaque: their results are      *)
(* drawn nondeterministically when an input is chosen.                     *)
(***************************************************************************)
EXTENDS Integers, Sequences, FiniteSets, TLC

VARIABLES
    pc,            \* position of the running function
    rs_input,      \* remove_similar: the frame passed in (rows: label, Digest)
    dataframe,     \* remove_similar: the local `dataframe` (working frame)
    similarity,    \* remove_similar: Doc.similarity for each pair of rows
    rs_k,          \* remove_similar: index of the next entry of digest_pairs
    candidate,     \* remove_similar: the local `candidate` (a Doc, or NoDoc)
    rs_branch,     \* remove_similar: branch taken by the last loop iteration
    rs_keyerrors,  \* remove_similar: times the except branch has run
    articles,      \* form_ngrams: the Series passed in (rows: label, entry)
    bigram_mod,    \* form_ngrams: the pairs the fitted bigram Phraser merges
    trigram_mod,   \* form_ngrams: the pairs the fitted trigram Phraser merges
    temp,          \* form_ngrams: the local Series `temp` (rows: label, value)
    ng_k,          \* form_ngrams: position of the next row of articles.items()
    terms,         \* eval_article: the parameter `terms`
    role_keywords, \* eval_article: the parameter `role_keywords`
    word_sim,      \* eval_article: Doc.similarity for each pair of words
    results,       \* eval_article: the local list `results`
    ea_k,          \* eval_article: position of the next pair of product(...)
    score,         \* eval_article: the value returned
    tw_articles,   \* generate_trend_wordcloud: the Series passed in
    old_articles,  \* generate_trend_wordcloud: the local `old_articles`
    new_articles,  \* generate_trend_wordcloud: the local `new_articles`
    difference,    \* generate_trend_wordcloud: the dict `difference`, in order
    y_pred,        \* generate_trend_wordcloud: the cluster label of each rank
    trending_keywords, \* generate_trend_wordcloud: the dict of that name
    tw_error,      \* generate_trend_wordcloud: the exception raised, if any
    dir_created,   \* generate_trend_wordcloud: os.makedirs has run
    image_written  \* generate_trend_wordcloud: wordcloud.to_file has run

rsVars == <<rs_input, dataframe, similarity, rs_k, candidate, rs_branch, rs_keyerrors>>

ngVars == <<articles, bigram_mod, trigram_mod, temp, ng_k>>

eaVars == <<terms, role_keywords, word_sim, results, ea_k, score>>

twVars == <<tw_articles, old_articles, new_articles, difference, y_pred,
           trending_keywords, tw_error, dir_created, image_written>>

vars == <<pc, rsVars, ngVars, eaVars, twVars>>

(***************************************************************************)
(* Bounds of the model.                                                    *)
(***************************************************************************)
MaxRows == 3
MaxDigestLen == 4
MaxBatch == 2
MaxLabel == 2
MaxEntryLen == 3
MaxTerms == 2
MaxKeywords == 2
MaxArticles == 23
MaxArticleLen == 2

(***************************************************************************)
(* Shared helpers.                                                         *)
(***************************************************************************)
Range(s) == {s[i] : i \in 1..Len(s)}

RECURSIVE SortedLabels(_)
\* the labels of a set, ascending
SortedLabels(S) ==
    IF S = {} THEN <<>>
    ELSE LET m == CHOOSE x \in S : \A y \in S : x <= y
         IN  <<m>> \o SortedLabels(S \ {m})

(***************************************************************************)
(* remove_similar                                                          *)
(***************************************************************************)
Lemmas == {"a", "b"}

\* hundredths: 0.87
Threshold == 87

\* similarity values Doc.similarity may return for two different texts
\* (hundredths): just below the threshold and exactly on it
SimValues == {86, 87}

\* similarity of two Docs with the same text
SimSame == 100

DigestLens == (MaxDigestLen - 1)..MaxDigestLen

\* Digest cells: lists of lemmas
DigestValues == {[i \in 1..n |-> t] : t \in Lemmas, n \in DigestLens}

NoDoc == [id |-> 0, tokens |-> <<>>]

\* eval_article has not returned
NoScore == [num |-> 0, den |-> 0]

\* NLP(" ".join(x)) for the cell of row i: a fresh Doc object.  `id` is the
\* object's identity, `tokens` its tokens (one per lemma of the cell, the
\* lemmas being single alphabetic words).
NLP(i, x) == [id |-> i, tokens |-> x]

\* len(doc)
DocLen(doc) == Len(doc.tokens)

\* temp_series: the Docs of the Digest column, under the frame's index
temp_series == [i \in 1..Len(rs_input) |->
                   [label |-> rs_input[i].label, doc |-> NLP(i, rs_input[i].Digest)]]

RECURSIVE CombinationsFrom(_, _, _)
CombinationsFrom(i, j, n) ==
    IF i >= n THEN <<>>
    ELSE IF j > n THEN CombinationsFrom(i + 1, i + 2, n)
    ELSE <<<<i, j>>>> \o CombinationsFrom(i, j + 1, n)

\* list(combinations(temp_series, r=2)), as pairs of positions in temp_series
digest_pairs == CombinationsFrom(1, 2, Len(rs_input))

IsSimilarStrict(s) == s > Threshold

\* digest1.similarity(digest2) >= 0.87
IsSimilar(s) == s >= Threshold

CandidateShorter(digest1, digest2) ==
    IF DocLen(digest1) < DocLen(digest2) THEN digest1 ELSE digest2

\* candidate = digest1 if len(digest1) > len(digest2) else digest2
Candidate(digest1, digest2) ==
    IF DocLen(digest1) > DocLen(digest2) THEN digest1 ELSE digest2

\* doc == candidate: spaCy's Doc defines no __eq__, so the elementwise
\* comparison of the object Series with a Doc is object identity
DocEq(doc, cand) == doc.id = cand.id

\* temp_series.index[temp_series == candidate]
MatchingLabels(cand) ==
    {temp_series[i].label : i \in {j \in 1..Len(temp_series) : DocEq(temp_series[j].doc, cand)}}

FrameLabels(frame) == {frame[i].label : i \in 1..Len(frame)}

DropRowsReindexed(frame, labels) ==
    LET Keep(row) == row.label \notin labels
        kept == SelectSeq(frame, Keep)
    IN  [i \in 1..Len(kept) |-> [kept[i] EXCEPT !.label = i - 1]]

\* frame.drop(labels) once every label is known to be in the frame
DropRows(frame, labels) ==
    LET Keep(row) == row.label \notin labels
    IN  SelectSeq(frame, Keep)

\* DataFrame.drop(labels): KeyError when a label is not in the index,
\* otherwise the frame without the rows carrying one of the labels
Drop(frame, labels) ==
    IF labels \subseteq FrameLabels(frame)
    THEN [raised |-> FALSE, frame |-> DropRows(frame, labels)]
    ELSE [raised |-> TRUE, frame |-> frame]

ExceptKeyErrorRaise == "rs_raised"

\* except KeyError: continue
ExceptKeyError == "rs_loop"

\* the variables of the functions that are not running
RSIdle ==
    /\ rs_input = <<>>
    /\ dataframe = <<>>
    /\ similarity = <<>>
    /\ rs_k = 1
    /\ candidate = NoDoc
    /\ rs_branch = "none"
    /\ rs_keyerrors = 0

NGIdle ==
    /\ articles = <<>>
    /\ bigram_mod = {}
    /\ trigram_mod = {}
    /\ temp = <<>>
    /\ ng_k = 1

EAIdle ==
    /\ terms = <<>>
    /\ role_keywords = <<>>
    /\ word_sim = <<>>
    /\ results = <<>>
    /\ ea_k = 1
    /\ score = NoScore

TWIdle ==
    /\ tw_articles = <<>>
    /\ old_articles = <<>>
    /\ new_articles = <<>>
    /\ difference = <<>>
    /\ y_pred = <<>>
    /\ trending_keywords = <<>>
    /\ tw_error = "none"
    /\ dir_created = FALSE
    /\ image_written = FALSE

\* inputs: a frame of up to MaxRows rows under ascending distinct labels
\* out of 0..MaxRows (a RangeIndex, or what is left of one after a row was
\* filtered out), and the language model's similarity for each pair of
\* rows: symmetric by construction, a function of the two texts, SimSame
\* for equal texts
RSInputs ==
    {in \in [frame : UNION {[1..n -> DigestValues] : n \in 0..MaxRows},
             labels : SUBSET (0..MaxRows),
             sim : UNION {[{p \in (1..n) \X (1..n) : p[1] < p[2]} -> SimValues \cup {SimSame}]
                             : n \in 0..MaxRows}] :
        /\ Cardinality(in.labels) = Len(in.frame)
        /\ DOMAIN in.sim = {p \in (1..Len(in.frame)) \X (1..Len(in.frame)) : p[1] < p[2]}
        /\ \A p \in DOMAIN in.sim :
              (in.sim[p] = SimSame) <=> (in.frame[p[1]] = in.frame[p[2]])
        /\ \A p, q \in DOMAIN in.sim :
              ({in.frame[p[1]], in.frame[p[2]]} = {in.frame[q[1]], in.frame[q[2]]})
                 => in.sim[p] = in.sim[q]}

RSInit ==
    \E in \in RSInputs :
        /\ pc = "rs_loop"
        /\ rs_input = [i \in 1..Len(in.frame) |->
                          [label |-> SortedLabels(in.labels)[i], Digest |-> in.frame[i]]]
        /\ dataframe = rs_input
        /\ similarity = in.sim
        /\ rs_k = 1
        /\ candidate = NoDoc
        /\ rs_branch = "none"
        /\ rs_keyerrors = 0
        /\ NGIdle
        /\ EAIdle
        /\ TWIdle

\* the body of the loop for one pair (positions in temp_series), run on
\* `frame`: the branch taken, the candidate and the frame afterwards
LoopBody(frame, pair) ==
    LET digest1 == temp_series[pair[1]].doc
        digest2 == temp_series[pair[2]].doc
        cand == Candidate(digest1, digest2)
        res == Drop(frame, MatchingLabels(cand))
    IN  IF ~IsSimilar(similarity[pair])
        THEN [branch |-> "dissimilar", cand |-> NoDoc, frame |-> frame]
        ELSE IF res.raised
        THEN [branch |-> "keyerror", cand |-> cand, frame |-> frame]
        ELSE [branch |-> "dropped", cand |-> cand, frame |-> res.frame]

\* one iteration of `for digest1, digest2 in digest_pairs`
RemoveSimilarStep ==
    /\ pc = "rs_loop"
    /\ rs_k <= Len(digest_pairs)
    /\ LET body == LoopBody(dataframe, digest_pairs[rs_k])
       IN  /\ rs_branch' = body.branch
           /\ dataframe' = body.frame
           /\ candidate' = IF body.branch = "dissimilar" THEN candidate ELSE body.cand
           /\ pc' = IF body.branch = "keyerror" THEN ExceptKeyError ELSE "rs_loop"
           /\ rs_keyerrors' = IF body.branch = "keyerror" THEN rs_keyerrors + 1
                                                          ELSE rs_keyerrors
    /\ rs_k' = rs_k + 1
    /\ UNCHANGED <<rs_input, similarity, ngVars, eaVars, twVars>>

\* return dataframe
RemoveSimilarReturn ==
    /\ pc = "rs_loop"
    /\ rs_k > Len(digest_pairs)
    /\ pc' = "rs_done"
    /\ UNCHANGED <<rsVars, ngVars, eaVars, twVars>>

RSNext == RemoveSimilarStep \/ RemoveSimilarReturn

SpecRS == RSInit /\ [][RSNext]_vars

(***************************************************************************)
(* form_ngrams                                                             *)
(*                                                                         *)
(* A token is the sequence of the lemmas it joins: <<"a">> is the lemma    *)
(* "a" and <<"a", "b">> the merged token "a_b".                            *)
(***************************************************************************)
SeqsUpTo(S, n) == UNION {[1..k -> S] : k \in 0..n}

\* the adjacent pairs of tokens of a batch of token sequences
AdjacentPairs(batch) ==
    UNION {{<<batch[r][i], batch[r][i + 1]>> : i \in 1..(Len(batch[r]) - 1)} : r \in DOMAIN batch}

RECURSIVE ApplyPhraser(_, _)
\* phraser[entry]: left to right, a pair of adjacent tokens the model knows
\* becomes one merged token and the scan goes on after it
ApplyPhraser(phrases, entry) ==
    IF Len(entry) < 2 THEN entry
    ELSE IF <<entry[1], entry[2]>> \in phrases
         THEN <<entry[1] \o entry[2]>> \o ApplyPhraser(phrases, SubSeq(entry, 3, Len(entry)))
         ELSE <<entry[1]>> \o ApplyPhraser(phrases, Tail(entry))

\* a cell of `temp`: the integer 0 it is created with, or a list of tokens
IntZero == [isint |-> TRUE, list |-> <<>>]

ListValue(l) == [isint |-> FALSE, list |-> l]

\* pd.Series(0, index=np.arange(n))
NewSeries(n) == [i \in 1..n |-> [label |-> i - 1, value |-> IntZero]]

\* series[label] = value: sets the cell under the label, and appends a new
\* row when the index has no such label
SetItem(series, label, value) ==
    IF \E i \in 1..Len(series) : series[i].label = label
    THEN [i \in 1..Len(series) |->
             IF series[i].label = label THEN [series[i] EXCEPT !.value = value]
                                        ELSE series[i]]
    ELSE Append(series, [label |-> label, value |-> value])

\* inputs: up to MaxBatch entries of up to MaxEntryLen lemmas, under
\* ascending distinct labels out of 0..MaxLabel, and the phrase models
\* fitted on them: any of the adjacent pairs of the text they were fit on
NGInit ==
    \E L \in SUBSET (0..MaxLabel) :
      \E es \in [1..Cardinality(L) -> SeqsUpTo(Lemmas, MaxEntryLen)] :
        /\ Cardinality(L) <= MaxBatch
        /\ LET labels == SortedLabels(L)
               batch == [i \in DOMAIN es |-> [j \in 1..Len(es[i]) |-> <<es[i][j]>>]]
           IN  /\ articles = [i \in DOMAIN es |-> [label |-> labels[i], entry |-> batch[i]]]
               /\ \E bi \in SUBSET AdjacentPairs(batch) :
                     /\ bigram_mod = bi
                     /\ \E tri \in SUBSET AdjacentPairs(
                                [i \in DOMAIN batch |-> ApplyPhraser(bi, batch[i])]) :
                           trigram_mod = tri
               /\ temp = NewSeries(Len(es))
        /\ pc = "ng_loop"
        /\ ng_k = 1
        /\ RSIdle
        /\ EAIdle
        /\ TWIdle

\* one iteration of `for i, entry in articles.items()`
FormNgramsStep ==
    /\ pc = "ng_loop"
    /\ ng_k <= Len(articles)
    /\ LET i == articles[ng_k].label
           entry == articles[ng_k].entry
           temp1 == SetItem(temp, i, ListValue(ApplyPhraser(bigram_mod, entry)))
       IN  temp' = SetItem(temp1, i,
                       ListValue(ApplyPhraser(trigram_mod, ApplyPhraser(bigram_mod, entry))))
    /\ ng_k' = ng_k + 1
    /\ UNCHANGED <<pc, articles, bigram_mod, trigram_mod, rsVars, eaVars, twVars>>

\* return temp
FormNgramsReturn ==
    /\ pc = "ng_loop"
    /\ ng_k > Len(articles)
    /\ pc' = "ng_done"
    /\ UNCHANGED <<rsVars, ngVars, eaVars, twVars>>

NGNext == FormNgramsStep \/ FormNgramsReturn

SpecNG == NGInit /\ [][NGNext]_vars

(***************************************************************************)
(* eval_article                                                            *)
(***************************************************************************)
Words == {"a", "b", "c"}

\* similarity values of two different words (hundredths)
WordSimValues == {40, 90}

\* article_word.similarity(keyword): symmetric, SimSame for the same word
WordSimilarity(w1, w2) == IF w1 = w2 THEN SimSame ELSE word_sim[{w1, w2}]

\* list(product(terms, role_keywords)): the k-th pair of the cross product
product(ts, ks, k) == <<ts[((k - 1) \div Len(ks)) + 1], ks[((k - 1) % Len(ks)) + 1]>>

RECURSIVE Insert(_, _)
\* x put into the ascending sequence s
Insert(x, s) ==
    IF s = <<>> THEN <<x>>
    ELSE IF x < Head(s) THEN <<x>> \o s
    ELSE <<Head(s)>> \o Insert(x, Tail(s))

RECURSIVE sorted(_)
\* sorted(data)
sorted(data) == IF data = <<>> THEN <<>> ELSE Insert(Head(data), sorted(Tail(data)))

median_low(data) ==
    LET d == sorted(data)
        n == Len(d)
    IN  IF n % 2 = 1 THEN [num |-> d[(n \div 2) + 1], den |-> 1]
        ELSE [num |-> d[n \div 2], den |-> 1]

\* statistics.median(data) for non-empty data, as the fraction num/den:
\* the middle value, or the mean of the two middle values
median(data) ==
    LET d == sorted(data)
        n == Len(d)
    IN  IF n % 2 = 1 THEN [num |-> d[(n \div 2) + 1], den |-> 1]
        ELSE [num |-> d[n \div 2] + d[(n \div 2) + 1], den |-> 2]

\* inputs: up to MaxTerms terms and up to MaxKeywords keywords, and the
\* language model's similarity for each pair of different words
EAInit ==
    \E ts \in SeqsUpTo(Words, MaxTerms), ks \in SeqsUpTo(Words, MaxKeywords),
       ws \in [{{v, w} : v, w \in Words} \ {{w} : w \in Words} -> WordSimValues] :
        /\ terms = ts
        /\ role_keywords = ks
        /\ word_sim = ws
        /\ results = <<>>
        /\ ea_k = 1
        /\ score = NoScore
        /\ pc = "ea_loop"
        /\ RSIdle
        /\ NGIdle
        /\ TWIdle

\* one iteration of `for article_word, keyword in product(terms, role_keywords)`
EvalArticleStep ==
    /\ pc = "ea_loop"
    /\ ea_k <= Len(terms) * Len(role_keywords)
    /\ LET pair == product(terms, role_keywords, ea_k)
       IN  results' = Append(results, WordSimilarity(pair[1], pair[2]))
    /\ ea_k' = ea_k + 1
    /\ UNCHANGED <<pc, terms, role_keywords, word_sim, score, rsVars, ngVars, twVars>>

\* return median(results): StatisticsError on an empty list
EvalArticleReturn ==
    /\ pc = "ea_loop"
    /\ ea_k > Len(terms) * Len(role_keywords)
    /\ IF results = <<>>
       THEN pc' = "ea_raised" /\ UNCHANGED score
       ELSE pc' = "ea_done" /\ score' = median(results)
    /\ UNCHANGED <<terms, role_keywords, word_sim, results, ea_k, rsVars, ngVars, twVars>>

EANext == EvalArticleStep \/ EvalArticleReturn

SpecEA == EAInit /\ [][EANext]_vars

(***************************************************************************)
(* generate_trend_wordcloud                                                *)
(***************************************************************************)
\* if len(articles) < 20
MinArticles == 20

\* KMeans(n_clusters=3)
NClusters == 3

TrendTerms == <<"a", "b", "c">>

\* the article of up to n tokens that reads TrendTerms cyclically from term t
Window(t, n) == [i \in 1..n |-> TrendTerms[((t + i - 2) % Len(TrendTerms)) + 1]]

ArticleValues == {Window(t, n) : t \in 1..Len(TrendTerms), n \in 0..MaxArticleLen}

\* articles.head(n)
head(series, n) == SubSeq(series, 1, n)

\* articles.tail(n)
tail(series, n) == SubSeq(series, Len(series) - n + 1, Len(series))

RECURSIVE chain(_)
\* list(chain.from_iterable(series))
chain(series) == IF series = <<>> THEN <<>> ELSE Head(series) \o chain(Tail(series))

\* counter[term], 0 for a term that is not a key
CounterGet(counter, term) ==
    IF \E i \in 1..Len(counter) : counter[i].term = term
    THEN counter[CHOOSE i \in 1..Len(counter) : counter[i].term = term].count
    ELSE 0

\* counter[term] = count: in place for a key, appended for a new key
CounterSet(counter, term, count) ==
    IF \E i \in 1..Len(counter) : counter[i].term = term
    THEN [i \in 1..Len(counter) |->
             IF counter[i].term = term THEN [term |-> term, count |-> count] ELSE counter[i]]
    ELSE Append(counter, [term |-> term, count |-> count])

RECURSIVE CounterUpdate(_, _)
CounterUpdate(counter, tokens) ==
    IF tokens = <<>> THEN counter
    ELSE CounterUpdate(CounterSet(counter, Head(tokens), CounterGet(counter, Head(tokens)) + 1),
                       Tail(tokens))

\* Counter(tokens): a dict of the counts, keys in order of first occurrence
Counter(tokens) == CounterUpdate(<<>>, tokens)

RECURSIVE subtract(_, _)
\* counter.subtract(other): every key of `other`, in its order, has its
\* count subtracted; zero and negative counts are kept
subtract(counter, other) ==
    IF other = <<>> THEN counter
    ELSE subtract(CounterSet(counter, Head(other).term,
                             CounterGet(counter, Head(other).term) - Head(other).count),
                  Tail(other))

RECURSIVE InsertAfterTies(_, _)
InsertAfterTies(x, s) ==
    IF s = <<>> THEN <<x>>
    ELSE IF Head(s).count < x.count THEN <<x>> \o s
    ELSE <<Head(s)>> \o InsertAfterTies(x, Tail(s))

RECURSIVE most_common_ties_reversed(_)
most_common_ties_reversed(counter) ==
    IF counter = <<>> THEN <<>>
    ELSE InsertAfterTies(Head(counter), most_common_ties_reversed(Tail(counter)))

RECURSIVE InsertBeforeTies(_, _)
\* x, which comes before every entry of s in the dict, put into the sorted s
InsertBeforeTies(x, s) ==
    IF s = <<>> THEN <<x>>
    ELSE IF Head(s).count <= x.count THEN <<x>> \o s
    ELSE <<Head(s)>> \o InsertBeforeTies(x, Tail(s))

RECURSIVE most_common(_)
\* counter.most_common(): sorted(items, key=count, reverse=True), a stable
\* sort: entries of equal count keep the order of the dict
most_common(counter) ==
    IF counter = <<>> THEN <<>>
    ELSE InsertBeforeTies(Head(counter), most_common(Tail(counter)))

\* the labellings fit_predict may return for the ranked values: every
\* sample gets the label of its nearest centre, so equal values get equal
\* labels; which label a cluster gets is arbitrary
Labellings(diff) ==
    LET values == {diff[i].count : i \in 1..Len(diff)}
    IN  {[i \in 1..Len(diff) |-> f[diff[i].count]] : f \in [values -> 0..(NClusters - 1)]}

FirstChangeInclusive(labels) ==
    LET changes == {i \in 1..(Len(labels) - 1) : labels[i + 1] /= labels[i]}
    IN  IF changes = {} THEN 0
        ELSE (CHOOSE i \in changes : \A j \in changes : i <= j) + 1

\* the i at which `for i in range(1, len(y_pred))` breaks, as the number
\* of leading ranks kept by [0:i]; 0 when the loop ends without a break
FirstChange(labels) ==
    LET changes == {i \in 1..(Len(labels) - 1) : labels[i + 1] /= labels[i]}
    IN  IF changes = {} THEN 0
        ELSE CHOOSE i \in changes : \A j \in changes : i <= j

\* inputs: a batch of MinArticles - 1 to MaxArticles articles, the first k
\* with one text and the others with another
TWInit ==
    \E n \in (MinArticles - 1)..MaxArticles :
      \E k \in 0..n, a, b \in ArticleValues :
        /\ tw_articles = [i \in 1..n |-> IF i <= k THEN a ELSE b]
        /\ old_articles = <<>>
        /\ new_articles = <<>>
        /\ difference = <<>>
        /\ y_pred = <<>>
        /\ trending_keywords = <<>>
        /\ tw_error = "none"
        /\ dir_created = FALSE
        /\ image_written = FALSE
        /\ pc = "tw_start"
        /\ RSIdle
        /\ NGIdle
        /\ EAIdle

\* if len(articles) < 20: raise ValueError
TrendValidate ==
    /\ pc = "tw_start"
    /\ IF Len(tw_articles) < MinArticles
       THEN pc' = "tw_raised" /\ tw_error' = "too_short"
       ELSE pc' = "tw_split" /\ UNCHANGED tw_error
    /\ UNCHANGED <<tw_articles, old_articles, new_articles, difference, y_pred,
                   trending_keywords, dir_created, image_written, rsVars, ngVars, eaVars>>

\* divide Series in two
TrendSplit ==
    /\ pc = "tw_split"
    /\ LET half_point == Len(tw_articles) \div 2
       IN  /\ old_articles' = head(tw_articles, half_point)
           /\ new_articles' = tail(tw_articles, half_point - (half_point % 2))
    /\ pc' = "tw_diff"
    /\ UNCHANGED <<tw_articles, difference, y_pred, trending_keywords, tw_error,
                   dir_created, image_written, rsVars, ngVars, eaVars>>

\* count both halves, subtract, sort
TrendDifference ==
    /\ pc = "tw_diff"
    /\ LET old_articles_counted == Counter(chain(old_articles))
           new_articles_counted == Counter(chain(new_articles))
       IN  difference' = most_common(subtract(new_articles_counted, old_articles_counted))
    /\ pc' = "tw_cluster"
    /\ UNCHANGED <<tw_articles, old_articles, new_articles, y_pred, trending_keywords,
                   tw_error, dir_created, image_written, rsVars, ngVars, eaVars>>

\* KMeans(n_clusters=3).fit_predict(values): ValueError when there are
\* fewer samples than clusters
TrendCluster ==
    /\ pc = "tw_cluster"
    /\ IF Len(difference) < NClusters
       THEN pc' = "tw_raised" /\ tw_error' = "kmeans" /\ UNCHANGED y_pred
       ELSE /\ y_pred' \in Labellings(difference)
            /\ pc' = "tw_scan"
            /\ UNCHANGED tw_error
    /\ UNCHANGED <<tw_articles, old_articles, new_articles, difference, trending_keywords,
                   dir_created, image_written, rsVars, ngVars, eaVars>>

\* the loop that maps the ranks to the first cluster
TrendScan ==
    /\ pc = "tw_scan"
    /\ trending_keywords' = SubSeq(difference, 1, FirstChange(y_pred))
    /\ pc' = "tw_render"
    /\ UNCHANGED <<tw_articles, old_articles, new_articles, difference, y_pred, tw_error,
                   dir_created, image_written, rsVars, ngVars, eaVars>>

\* open the mask (it may be missing), lay out the cloud (WordCloud raises
\* ValueError on an empty dict; the renderer is opaque otherwise), create
\* the directory if absent, write the image
TrendRender ==
    /\ pc = "tw_render"
    /\ \E mask_exists, dir_exists \in BOOLEAN :
          IF ~mask_exists
          THEN pc' = "tw_raised" /\ tw_error' = "mask" /\ UNCHANGED <<dir_created, image_written>>
          ELSE IF trending_keywords = <<>>
          THEN pc' = "tw_raised" /\ tw_error' = "wordcloud"
               /\ UNCHANGED <<dir_created, image_written>>
          ELSE /\ pc' = "tw_done"
               /\ dir_created' = ~dir_exists
               /\ image_written' = TRUE
               /\ UNCHANGED tw_error
    /\ UNCHANGED <<tw_articles, old_articles, new_articles, difference, y_pred,
                   trending_keywords, rsVars, ngVars, eaVars>>

TWNext ==
    \/ TrendValidate
    \/ TrendSplit
    \/ TrendDifference
    \/ TrendCluster
    \/ TrendScan
    \/ TrendRender

SpecTW == TWInit /\ [][TWNext]_vars

(***************************************************************************)
(* Claims about remove_similar.                                            *)
(***************************************************************************)
\* the frame after the first k pairs of the pass
RECURSIVE FrameAfter(_)
FrameAfter(k) ==
    IF k = 0 THEN rs_input ELSE LoopBody(FrameAfter(k - 1), digest_pairs[k]).frame

\* row i of the input is in the working frame
Retained(i) == rs_input[i] \in Range(dataframe)

SimilarPairs == {k \in 1..Len(digest_pairs) : similarity[digest_pairs[k]] >= 87}

\* the position of the row removed for pair p: the longer Doc, the second on a tie
LongerOf(p) ==
    IF Len(rs_input[p[1]].Digest) > Len(rs_input[p[2]].Digest) THEN p[1] ELSE p[2]

OtherOf(p) == IF LongerOf(p) = p[1] THEN p[2] ELSE p[1]

\* C1 (as stated): in the output, of every pair of rows with similarity >=
\* 0.87 exactly one row is retained, unless one side was already gone when
\* the pair's turn came
C1_ExactlyOneRetained ==
    pc = "rs_done" =>
        \A k \in SimilarPairs :
            LET p == digest_pairs[k]
                before == Range(FrameAfter(k - 1))
            IN  \/ rs_input[p[1]] \notin before
                \/ rs_input[p[2]] \notin before
                \/ Retained(p[1]) /= Retained(p[2])

\* C1 (amended): in the output, of every pair of rows with similarity >=
\* 0.87 at most one row is retained (never both); neither is retained only
\* when the row the pair keeps is the removal candidate of another pair
C1_NeverBothRetained ==
    pc = "rs_done" =>
        \A k \in SimilarPairs :
            LET p == digest_pairs[k]
            IN  /\ ~(Retained(p[1]) /\ Retained(p[2]))
                /\ (~Retained(p[1]) /\ ~Retained(p[2])) =>
                       \E k2 \in SimilarPairs \ {k} :
                           LongerOf(digest_pairs[k2]) = OtherOf(p)

\* a finished pass with a near-duplicate pair of which both rows were present
\* at its turn and neither is in the output
C1_Witness ==
    /\ pc = "rs_done"
    /\ \E k \in SimilarPairs :
           LET p == digest_pairs[k]
               before == Range(FrameAfter(k - 1))
           IN  /\ rs_input[p[1]] \in before
               /\ rs_input[p[2]] \in before
               /\ ~Retained(p[1])
               /\ ~Retained(p[2])

\* the pair whose turn it is in a state about to run a loop iteration
AtPair == pc = "rs_loop" /\ rs_k <= Len(digest_pairs)

\* C2: for a pair with similarity >= 0.87 and digests of different lengths
\* the candidate is the Doc of the longer digest and the iteration removes
\* no other row; a two-row frame with a 3-token and a 4-token digest of
\* similarity >= 0.87 comes out as exactly the 3-token row
C2_LongerIsCandidate ==
    /\ [][(AtPair /\ rs_k \in SimilarPairs) =>
            LET p == digest_pairs[rs_k]
                l1 == Len(rs_input[p[1]].Digest)
                l2 == Len(rs_input[p[2]].Digest)
                longer == IF l1 > l2 THEN p[1] ELSE p[2]
            IN  l1 /= l2 =>
                   /\ candidate' = [id |-> longer, tokens |-> rs_input[longer].Digest]
                   /\ Range(dataframe) \ Range(dataframe') \subseteq {rs_input[longer]}]_vars
    /\ [](  (/\ pc = "rs_done"
             /\ Len(rs_input) = 2
             /\ {Len(rs_input[1].Digest), Len(rs_input[2].Digest)} = {3, 4}
             /\ similarity[<<1, 2>>] >= 87)
          => (/\ Len(dataframe) = 1
              /\ Len(dataframe[1].Digest) = 3
              /\ dataframe[1] \in Range(rs_input)))

\* a finished pass over a two-row frame with a 3-token and a 4-token digest
\* that are near-duplicates
C2_Witness ==
    /\ pc = "rs_done"
    /\ Len(rs_input) = 2
    /\ Len(rs_input[1].Digest) = 4
    /\ Len(rs_input[2].Digest) = 3
    /\ similarity[<<1, 2>>] >= 87
    /\ rs_branch = "dropped"

RECURSIVE IsSubsequence(_, _)
\* s can be obtained from t by deleting entries (order kept)
IsSubsequence(s, t) ==
    IF s = <<>> THEN TRUE
    ELSE IF t = <<>> THEN FALSE
    ELSE IF Head(s) = Head(t) THEN IsSubsequence(Tail(s), Tail(t))
    ELSE IsSubsequence(s, Tail(t))

\* C3: the working frame is always a subsequence of the input frame (its
\* rows unmodified and in input order) and no step makes it grow
C3_SubsetNeverGrows ==
    /\ [](IsSubsequence(dataframe, rs_input))
    /\ [][IsSubsequence(dataframe', dataframe)]_vars

\* a finished pass that removed rows and kept some
C3_Witness ==
    /\ pc = "rs_done"
    /\ 0 < Len(dataframe)
    /\ Len(dataframe) + 2 <= Len(rs_input)

\* C9: when the candidate's row is no longer in the working frame the
\* iteration leaves the frame unchanged and the pass goes on to the next
\* pair; no error ends the pass; a candidate that is still there is removed
C9_StaleRemovalIsNoOp ==
    /\ [](pc /= "rs_raised")
    /\ [][(AtPair /\ rs_k \in SimilarPairs) =>
            LET cand == rs_input[LongerOf(digest_pairs[rs_k])]
            IN  /\ pc' = "rs_loop"
                /\ rs_k' = rs_k + 1
                /\ IF cand \in Range(dataframe)
                   THEN cand \notin Range(dataframe')
                   ELSE dataframe' = dataframe]_vars

\* a removal applied after an earlier removal attempt found no row
C9_Witness ==
    /\ rs_keyerrors >= 1
    /\ rs_branch = "dropped"

(***************************************************************************)
(* Claims about form_ngrams.                                               *)
(***************************************************************************)
\* C7: the result has one entry per input entry, and under each input label
\* the input entry after the bigram and then the trigram substitution
C7_OneRewrittenEntryPerInput ==
    pc = "ng_done" =>
        /\ Len(temp) = Len(articles)
        /\ \A k \in 1..Len(articles) :
              \E j \in 1..Len(temp) :
                 /\ temp[j].label = articles[k].label
                 /\ ~temp[j].value.isint
                 /\ temp[j].value.list =
                       ApplyPhraser(trigram_mod, ApplyPhraser(bigram_mod, articles[k].entry))

(***************************************************************************)
(* Claims about eval_article.                                              *)
(***************************************************************************)
\* the number of entries of a sequence below / not above a value
CountBelow(s, v) == Cardinality({i \in 1..Len(s) : s[i] < v})

CountUpTo(s, v) == Cardinality({i \in 1..Len(s) : s[i] <= v})

\* the value at 0-based rank r of the entries of s in ascending order
OrderStatistic(s, r) ==
    CHOOSE v \in Range(s) : CountBelow(s, v) <= r /\ r < CountUpTo(s, v)

C4_ShortBatchRaisesTwentySucceeds ==
    /\ (Len(tw_articles) < 20 /\ pc /= "tw_start") =>
          /\ pc = "tw_raised"
          /\ tw_error = "too_short"
          /\ y_pred = <<>>
          /\ ~dir_created
          /\ ~image_written
    /\ (Len(tw_articles) = 20 /\ pc = "tw_raised") => tw_error = "mask"

\* the scan of the labels has run
Scanned ==
    \/ pc \in {"tw_render", "tw_done"}
    \/ pc = "tw_raised" /\ tw_error \in {"mask", "wordcloud"}

\* C5: the trending set is the ranked list up to the first rank whose label
\* differs from the label before it: a strict prefix of the ranked list,
\* empty when the labels never change
C5_TrendingIsStrictPrefix ==
    Scanned =>
        LET m == Len(trending_keywords)
        IN  /\ m < Len(difference)
            /\ \A r \in 1..m : trending_keywords[r] = difference[r]
            /\ \A r \in 1..m : y_pred[r] = y_pred[1]
            /\ m > 0 => y_pred[m + 1] /= y_pred[m]
            /\ m = 0 => \A r \in 1..Len(y_pred) : y_pred[r] = y_pred[1]

\* a scan that found the boundary after the second rank
C5_Witness ==
    /\ pc = "tw_render"
    /\ Len(trending_keywords) = 2
    /\ Len(difference) = 3

\* C6: the old half is the first floor(n/2) articles, the new half is a
\* suffix of even length that does not overlap it, and at most one of the
\* articles after the midpoint is in neither half
C6_EvenNewHalfDropsAtMostOne ==
    pc \in {"tw_diff", "tw_cluster", "tw_scan", "tw_render", "tw_done"} =>
        LET n == Len(tw_articles)
            rest == n - (n \div 2)
        IN  /\ old_articles = SubSeq(tw_articles, 1, n \div 2)
            /\ new_articles = SubSeq(tw_articles, n - Len(new_articles) + 1, n)
            /\ Len(new_articles) % 2 = 0
            /\ Len(old_articles) + Len(new_articles) <= n
            /\ rest - Len(new_articles) <= 1

\* the number of occurrences of a term in a batch of articles
Occurrences(batch, t) ==
    LET tokens == chain(batch) IN Cardinality({i \in 1..Len(tokens) : tokens[i] = t})

FirstOccurrence(batch, t) ==
    LET tokens == chain(batch)
    IN  CHOOSE i \in 1..Len(tokens) : tokens[i] = t /\ \A j \in 1..(i - 1) : tokens[j] /= t

\* the place of a term in the counting dict: the terms of the new half by
\* first occurrence, then the other terms of the old half by first occurrence
InsertionRank(t) ==
    IF t \in Range(chain(new_articles))
    THEN FirstOccurrence(new_articles, t)
    ELSE Len(chain(new_articles)) + FirstOccurrence(old_articles, t)

\* C10: the frequency-diff has one entry for every term of either half,
\* valued new-half count minus old-half count, ranked by non-increasing
\* value, equal values in the insertion order of the counting dict
C10_FrequencyDiffRanked ==
    pc \in {"tw_cluster", "tw_scan", "tw_render", "tw_done"} =>
        LET alltokens == Range(chain(old_articles)) \cup Range(chain(new_articles))
            n == Len(difference)
        IN  /\ {difference[i].term : i \in 1..n} = alltokens
            /\ n = Cardinality(alltokens)
            /\ \A i \in 1..n :
                  difference[i].count = Occurrences(new_articles, difference[i].term)
                                        - Occurrences(old_articles, difference[i].term)
            /\ \A i, j \in 1..n :
                  i < j =>
                     /\ difference[i].count >= difference[j].count
                     /\ difference[i].count = difference[j].count =>
                           InsertionRank(difference[i].term) < InsertionRank(difference[j].term)

\* a ranked diff with a term that gained, and two terms of equal value of
\* which the first is in the new half and the second only in the old half
C10_Witness ==
    /\ pc = "tw_cluster"
    /\ Len(difference) = 3
    /\ difference[1].count > 0
    /\ difference[2].count = difference[3].count
    /\ difference[3].term \notin Range(chain(new_articles))

====
